---- MODULE Spec2Model ----
(***************************************************************************)
(* neddns: authoritative DNS server whose zones are fetched from S3.       *)
(* The model covers main() (startup load, reload goroutine, signal loop),  *)
(* config.getZones, config.loadZones, zone.zoneHandler,                    *)
(* config.flattenCNAME and config.registerVersionHandler of neddns.go.     *)
(*                                                                         *)
(* Strings are sequences of one-character strings, so that                 *)
(* strings.TrimPrefix and dns.Fqdn are computed and not assumed.           *)
(* Time is counted in whole minutes.                                       *)
(***************************************************************************)
EXTENDS Naturals, Integers, Sequences, FiniteSets, TLC

VARIABLES
    now,        \* wall clock (time.Now())
    remote,     \* the bucket: key -> NoObject or [LastModified, Contents]
    uploads,    \* number of remote modifications so far (bounded)
    lastUpdate, \* c.lastUpdate
    resp,       \* getZones: the part of ListZones' answer not yet iterated
    zones,      \* getZones' result map, then loadZones' argument
    todo,       \* loadZones: names of the map not yet iterated
    registry,   \* dns.HandleFunc registrations: name -> handler
    serving,    \* startServer has been called
    cpc,        \* position of the thread that runs getZones/loadZones
    mpc,        \* position of main's signal loop
    exit,       \* why the process ended ("none" while it runs)
    sigs,       \* number of signals sent so far (bounded)
    lost,       \* signals that signal.Notify's channel dropped
    running,    \* number of reload cycles in progress
    cyc,        \* the current (or last) cycle: what it saw when it began
    q,          \* the query each handler goroutine is at work on, if any
    stats,      \* c.stats: the counters query.request, .error and .answer
    sent        \* number of responses the zone handlers have written

vars == <<now, remote, uploads, lastUpdate, resp, zones, todo, registry,
          serving, cpc, mpc, exit, sigs, lost, running, cyc, q, stats, sent>>

----------------------------------------------------------------------------
(* Bounds of the model *)

\* The clock stops at MaxTime
MaxTime == 3
\* Writes to the bucket while the clock stands still (QuerySpec)
MaxUploads == 2
\* Writes to the bucket while the clock advances (Spec)
MaxTimedUploads == 1
\* Signals sent to the process
MaxSignals == 2
\* Writes to and removals from a bucket that may hold "." (RootSpec)
MaxChanges == 1
\* Queries handed to the zone handlers
MaxQueries == 2

----------------------------------------------------------------------------
(* Program constants and input domains *)

\* time.Minute, the clock-skew allowance of getZones, in clock units
Minute == 1

\* time.Unix(0, 0), the initial c.lastUpdate
Epoch == 0

\* c.prefix
Prefix == <<"z", "/">>

ZoneNames == {<<"a">>, <<"b">>}

Root == <<".">>

\* Object keys of the bucket under the prefix, in the order S3 lists them
KeySeq == <<Prefix, Prefix \o Root, Prefix \o <<"a">>, Prefix \o <<"b">>>>

\* The key of an object whose name, the prefix stripped, is "."
RootKey == Prefix \o Root

Keys == {KeySeq[i] : i \in 1..Len(KeySeq)}

\* Zone file texts: two well-formed versions and one with a syntax error
GoodContents == {"v1", "v2"}

BadContent == "bad"

Contents == GoodContents \cup {BadContent}

\* A well-formed text whose apex and whose name w own a CNAME record
FlatContent == "flat"

\* The name the apex CNAME of FlatContent points to
Target == <<"t", ".">>

NoObject == [absent |-> TRUE]

NoHandler == [kind |-> "none"]

VersionHandler == [kind |-> "version"]

Signals == {"SIGHUP", "SIGINT", "SIGTERM"}

----------------------------------------------------------------------------
(* Pure functions *)

HasPrefix(s, p) == Len(s) >= Len(p) /\ SubSeq(s, 1, Len(p)) = p

\* strings.TrimPrefix
TrimPrefix(s, p) == IF HasPrefix(s, p) THEN SubSeq(s, Len(p) + 1, Len(s)) ELSE s

\* dns.Fqdn
Fqdn(s) == IF Len(s) > 0 /\ s[Len(s)] = "." THEN s ELSE s \o <<".">>

\* time.Time.Before
Before(t, u) == t < u

\* Faulty variant: an object exactly at the boundary is skipped too
IsStaleInclusive(k) == k.LastModified <= lastUpdate - Minute

\* Faulty variant: no staleness test at all
IsStaleNever(k) == FALSE

\* getZones' staleness test on one listed object
IsStale(k) == Before(k.LastModified, lastUpdate - Minute)

\* The text of a zone object: the tokens dns.ParseZone yields for it under
\* origin n. A token is a record or a syntax error.
ZoneText(n, c) ==
    IF c = BadContent
    THEN << [err |-> FALSE, rr |-> [Name |-> Fqdn(n), Rrtype |-> "A", Rdata |-> c]],
            [err |-> TRUE] >>
    ELSE IF c = FlatContent
    THEN << [err |-> FALSE, rr |-> [Name |-> Fqdn(n), Rrtype |-> "CNAME", Rdata |-> Target]],
            [err |-> FALSE, rr |-> [Name |-> Fqdn(n), Rrtype |-> "MX", Rdata |-> c]],
            [err |-> FALSE, rr |-> [Name |-> <<"w", ".">> \o Fqdn(n), Rrtype |-> "CNAME", Rdata |-> Fqdn(n)]] >>
    ELSE << [err |-> FALSE, rr |-> [Name |-> Fqdn(n), Rrtype |-> "A", Rdata |-> c]],
            [err |-> FALSE, rr |-> [Name |-> Fqdn(n), Rrtype |-> "MX", Rdata |-> c]],
            [err |-> FALSE, rr |-> [Name |-> <<"w", ".">> \o Fqdn(n), Rrtype |-> "A", Rdata |-> c]] >>

ParseFails(n, c) == \E i \in 1..Len(ZoneText(n, c)) : ZoneText(n, c)[i].err

\* loadZones: the zone value built from a text whose tokens are all records
ParsedZone(n, c) ==
    [kind |-> "zone", name |-> n,
     rrs |-> [i \in 1..Len(ZoneText(n, c)) |-> ZoneText(n, c)[i].rr]]

\* ListZones' answer for the bucket as it is now
Listing ==
    LET F[i \in 0..Len(KeySeq)] ==
            IF i = 0 THEN <<>>
            ELSE IF remote[KeySeq[i]] = NoObject THEN F[i - 1]
                 ELSE Append(F[i - 1], [Key |-> KeySeq[i],
                                        LastModified |-> remote[KeySeq[i]].LastModified])
    IN F[Len(KeySeq)]

Alive == exit = "none"

Startup == ~serving

NoQuery == [pc |-> "idle"]

\* The goroutines of the DNS server that can run a handler at a time
HandlerIds == {"h1", "h2"}

RegNames == ZoneNames \cup {Root}

EmptyRegistry == [n \in RegNames |-> NoHandler]

EmptyMap == [n \in {} |-> "v1"]

\* What a cycle saw when it began, kept for the properties below
BeginCycle ==
    [start |-> now, wm |-> lastUpdate, store |-> registry,
     listing |-> <<>>, batch |-> EmptyMap, phase |-> "getZones",
     reload |-> serving, hups |-> 0]

----------------------------------------------------------------------------
(* Initial state: parseArgs has run, main is about to call getZones *)

InitWith(texts) ==
    /\ now = 0
    /\ remote \in [Keys -> {NoObject} \cup
                            {[LastModified |-> 0, Contents |-> c] : c \in texts}]
    /\ uploads = 0
    /\ lastUpdate = Epoch
    /\ resp = <<>>
    /\ zones = EmptyMap
    /\ todo = {}
    /\ registry = EmptyRegistry
    /\ serving = FALSE
    /\ cpc = "list"
    /\ mpc = "init"
    /\ exit = "none"
    /\ sigs = 0
    /\ lost = {}
    /\ running = 0
    /\ cyc = BeginCycle
    /\ q = [h \in HandlerIds |-> NoQuery]
    /\ stats = [request |-> 0, error |-> 0, answer |-> 0]
    /\ sent = 0

Init == InitWith({"v1"}) /\ remote[RootKey] = NoObject

\* The same with a bucket that may hold texts with CNAME records
HandlerInit ==
    /\ InitWith({"v1", FlatContent})
    /\ remote[Prefix] # NoObject
    /\ remote[RootKey] = NoObject

\* The same with a bucket that may hold an object named "."
RootInit == InitWith({"v1"})

----------------------------------------------------------------------------
(* The environment *)

Tick ==
    /\ Alive
    /\ now < MaxTime
    /\ now' = now + 1
    /\ UNCHANGED <<remote, uploads, lastUpdate, resp, zones, todo, registry,
                   serving, cpc, mpc, exit, sigs, lost, running, cyc, q, stats, sent>>

\* Somebody writes a zone object to the bucket (at most max times)
Upload(k, c, max) ==
    /\ Alive
    /\ uploads < max
    /\ k # Prefix
    /\ remote' = [remote EXCEPT ![k] = [LastModified |-> now, Contents |-> c]]
    /\ uploads' = uploads + 1
    /\ UNCHANGED <<now, lastUpdate, resp, zones, todo, registry,
                   serving, cpc, mpc, exit, sigs, lost, running, cyc, q, stats, sent>>

\* Somebody removes a zone object from the bucket (at most max changes)
Delete(k, max) ==
    /\ Alive
    /\ uploads < max
    /\ k # Prefix
    /\ remote[k] # NoObject
    /\ remote' = [remote EXCEPT ![k] = NoObject]
    /\ uploads' = uploads + 1
    /\ UNCHANGED <<now, lastUpdate, resp, zones, todo, registry,
                   serving, cpc, mpc, exit, sigs, lost, running, cyc, q, stats, sent>>

----------------------------------------------------------------------------
(* getZones *)

\* getter.ListZones(): s3getter.ListZones fails on an empty listing, and
\* on an error of the S3 call
ListZones ==
    /\ Alive
    /\ cpc = "list"
    /\ IF Listing = <<>>
       THEN /\ exit' = "list"
            /\ cyc' = [cyc EXCEPT !.phase = "failed"]
            /\ UNCHANGED <<resp, zones, cpc>>
       ELSE /\ resp' = Listing
            /\ zones' = EmptyMap
            /\ cpc' = "fetch"
            /\ cyc' = [cyc EXCEPT !.listing = Listing]
            /\ UNCHANGED exit
    /\ UNCHANGED <<now, remote, uploads, lastUpdate, todo, registry,
                   serving, mpc, sigs, lost, running, q, stats, sent>>

ListZonesError ==
    /\ Alive
    /\ cpc = "list"
    /\ exit' = "list"
    /\ cyc' = [cyc EXCEPT !.phase = "failed"]
    /\ UNCHANGED <<now, remote, uploads, lastUpdate, resp, zones, todo, registry,
                   serving, cpc, mpc, sigs, lost, running, q, stats, sent>>

\* The two tests at the head of getZones' loop body
Skipped(k) == k.Key = Prefix \/ IsStale(k)

\* One iteration of getZones' loop over the listing
GetZonesStep ==
    /\ Alive
    /\ cpc = "fetch"
    /\ resp # <<>>
    /\ LET k == Head(resp) IN
       /\ resp' = Tail(resp)
       /\ IF Skipped(k)
          THEN zones' = zones
          ELSE /\ remote[k.Key] # NoObject
               /\ zones' = [n \in DOMAIN zones \cup {TrimPrefix(k.Key, Prefix)} |->
                              IF n = TrimPrefix(k.Key, Prefix)
                              THEN remote[k.Key].Contents ELSE zones[n]]
    /\ UNCHANGED <<now, remote, uploads, lastUpdate, todo, registry,
                   serving, cpc, mpc, exit, sigs, lost, running, cyc, q, stats, sent>>

\* getter.GetZone or ioutil.ReadAll returns an error
GetZoneError ==
    /\ Alive
    /\ cpc = "fetch"
    /\ resp # <<>>
    /\ ~Skipped(Head(resp))
    /\ exit' = "fetch"
    /\ cyc' = [cyc EXCEPT !.phase = "failed"]
    /\ UNCHANGED <<now, remote, uploads, lastUpdate, resp, zones, todo, registry,
                   serving, cpc, mpc, sigs, lost, running, q, stats, sent>>

\* The end of getZones and what its caller does with the result: main
\* always calls loadZones, the reload goroutine only for a non-empty map
GetZonesReturn ==
    /\ Alive
    /\ cpc = "fetch"
    /\ resp = <<>>
    /\ lastUpdate' = now
    /\ IF Startup \/ DOMAIN zones # {}
       THEN /\ cpc' = "load"
            /\ todo' = DOMAIN zones
            /\ cyc' = [cyc EXCEPT !.batch = zones, !.phase = "loadZones"]
            /\ UNCHANGED running
       ELSE /\ cpc' = "select"
            /\ todo' = {}
            /\ cyc' = [cyc EXCEPT !.batch = zones, !.phase = "done"]
            /\ running' = running - 1
    /\ UNCHANGED <<now, remote, uploads, resp, zones, registry,
                   serving, mpc, exit, sigs, lost, q, stats, sent>>

----------------------------------------------------------------------------
(* loadZones *)

\* Faulty variant: registering a zone drops the zones that are not in the
\* batch (full replace instead of merge)
LoadZoneReplaceAll(n) ==
    /\ Alive
    /\ cpc = "load"
    /\ n \in todo
    /\ ~ParseFails(n, zones[n])
    /\ registry' = [m \in RegNames |->
                      IF m = n THEN ParsedZone(n, zones[n])
                      ELSE IF m \in DOMAIN zones \/ m = Root THEN registry[m]
                      ELSE NoHandler]
    /\ todo' = todo \ {n}
    /\ UNCHANGED <<now, remote, uploads, lastUpdate, resp, zones,
                   serving, cpc, mpc, exit, sigs, lost, running, cyc, q, stats, sent>>

\* Faulty variant: the handler is registered with the records read so far
\* when the parser reports an error
LoadZonePartial(n) ==
    /\ Alive
    /\ cpc = "load"
    /\ n \in todo
    /\ IF ParseFails(n, zones[n])
       THEN /\ exit' = "parse"
            /\ cyc' = [cyc EXCEPT !.phase = "failed"]
            /\ registry' = [registry EXCEPT ![n] =
                                [kind |-> "zone", name |-> n,
                                 rrs |-> <<ZoneText(n, zones[n])[1].rr>>]]
            /\ UNCHANGED todo
       ELSE /\ registry' = [registry EXCEPT ![n] = ParsedZone(n, zones[n])]
            /\ todo' = todo \ {n}
            /\ UNCHANGED <<exit, cyc>>
    /\ UNCHANGED <<now, remote, uploads, lastUpdate, resp, zones,
                   serving, cpc, mpc, sigs, lost, running, q, stats, sent>>

\* One iteration of loadZones' loop over the map (Go iterates a map in
\* any order): parse the text, then register the zone's handler
LoadZone(n) ==
    /\ Alive
    /\ cpc = "load"
    /\ n \in todo
    /\ IF ParseFails(n, zones[n])
       THEN /\ exit' = "parse"
            /\ cyc' = [cyc EXCEPT !.phase = "failed"]
            /\ UNCHANGED <<registry, todo>>
       ELSE /\ registry' = [registry EXCEPT ![n] = ParsedZone(n, zones[n])]
            /\ todo' = todo \ {n}
            /\ UNCHANGED <<exit, cyc>>
    /\ UNCHANGED <<now, remote, uploads, lastUpdate, resp, zones,
                   serving, cpc, mpc, sigs, lost, running, q, stats, sent>>

\* loadZones returns nil to the reload goroutine, which goes back to select
LoadZonesReturn ==
    /\ Alive
    /\ cpc = "load"
    /\ todo = {}
    /\ ~Startup
    /\ cpc' = "select"
    /\ running' = running - 1
    /\ cyc' = [cyc EXCEPT !.phase = "done"]
    /\ UNCHANGED <<now, remote, uploads, lastUpdate, resp, zones, todo, registry,
                   serving, mpc, exit, sigs, lost, q, stats, sent>>

\* loadZones returns nil to main: registerVersionHandler, startServer,
\* the reload goroutine is started and main enters its signal loop
StartServer ==
    /\ Alive
    /\ cpc = "load"
    /\ todo = {}
    /\ Startup
    /\ registry' = [registry EXCEPT ![Root] = VersionHandler]
    /\ serving' = TRUE
    /\ cpc' = "select"
    /\ mpc' = "recv"
    /\ cyc' = [cyc EXCEPT !.phase = "done"]
    /\ UNCHANGED <<now, remote, uploads, lastUpdate, resp, zones, todo,
                   exit, sigs, lost, running, q, stats, sent>>

----------------------------------------------------------------------------
(* The reload goroutine's select *)

\* Faulty variant: the timer starts a cycle of its own wherever the reload
\* goroutine is
TimerFiresAnytime ==
    /\ Alive
    /\ serving
    /\ mpc # "send"
    /\ cpc' = "list"
    /\ running' = running + 1
    /\ cyc' = BeginCycle
    /\ UNCHANGED <<now, remote, uploads, lastUpdate, resp, zones, todo, registry,
                   serving, mpc, exit, sigs, lost, q, stats, sent>>

\* case <-time.After(c.update). A positive interval has not elapsed at the
\* instant the select is entered, so a sender already waiting on doUpdate
\* is served first.
TimerFires ==
    /\ Alive
    /\ cpc = "select"
    /\ mpc # "send"
    /\ cpc' = "list"
    /\ running' = running + 1
    /\ cyc' = BeginCycle
    /\ UNCHANGED <<now, remote, uploads, lastUpdate, resp, zones, todo, registry,
                   serving, mpc, exit, sigs, lost, q, stats, sent>>

\* case <-doUpdate: the unbuffered channel hands main's value over; main
\* is runnable again but has not yet come back to its receive on sig
UpdateSignal ==
    /\ Alive
    /\ cpc = "select"
    /\ mpc = "send"
    /\ cpc' = "list"
    /\ mpc' = "wake"
    /\ running' = running + 1
    /\ cyc' = BeginCycle
    /\ UNCHANGED <<now, remote, uploads, lastUpdate, resp, zones, todo, registry,
                   serving, exit, sigs, lost, q, stats, sent>>

----------------------------------------------------------------------------
(* main's signal loop *)

\* main comes back to "case s := <-sig"
MainReceives ==
    /\ Alive
    /\ mpc = "wake"
    /\ mpc' = "recv"
    /\ UNCHANGED <<now, remote, uploads, lastUpdate, resp, zones, todo, registry,
                   serving, cpc, exit, sigs, lost, running, cyc, q, stats, sent>>

\* The process is sent signal s. sig is unbuffered and os/signal never
\* blocks on it: the signal is delivered when main is waiting in its
\* receive, and dropped otherwise. Delivered, SIGHUP takes main to
\* "doUpdate <- true" and any other signal to log.Fatalf.
Signal(s) ==
    /\ Alive
    /\ mpc # "init"
    /\ sigs < MaxSignals
    /\ sigs' = sigs + 1
    /\ IF mpc = "recv"
       THEN /\ IF s = "SIGHUP"
               THEN mpc' = "send" /\ exit' = exit
               ELSE mpc' = mpc /\ exit' = "signal"
            /\ lost' = lost
       ELSE /\ lost' = lost \cup {[sig |-> s, at |-> mpc]}
            /\ UNCHANGED <<mpc, exit>>
    /\ cyc' = IF s = "SIGHUP" /\ running > 0
              THEN [cyc EXCEPT !.hups = 1] ELSE cyc
    /\ UNCHANGED <<now, remote, uploads, lastUpdate, resp, zones, todo, registry,
                   serving, cpc, running, q, stats, sent>>

----------------------------------------------------------------------------
(* zoneHandler, flattenCNAME and the version handler *)

QTypes == {"A", "ANY"}

QClasses == {"INET", "CH"}

\* Ttl of the records flattenCNAME makes
FlatTtl == 300

\* var version
Version == <<"0", ".", "1">>

\* What d.Exchange(m, c.resolver) can return for the question (Target, A):
\* an error, a response with a failure code, a response without answer, a
\* response whose answer holds a CNAME and an A record
Upstream ==
    { [err |-> TRUE],
      [err |-> FALSE, Rcode |-> "SERVFAIL", Answer |-> <<>>],
      [err |-> FALSE, Rcode |-> "NOERROR", Answer |-> <<>>],
      [err |-> FALSE, Rcode |-> "NOERROR",
       Answer |-> << [Name |-> Target, Rrtype |-> "CNAME", Rdata |-> <<"u", ".">>],
                     [Name |-> <<"u", ".">>, Rrtype |-> "A", Rdata |-> "ip"] >>] }

NoExchange == [none |-> TRUE]

\* c.flattenCNAME(in) when d.Exchange returns up. The result is an error,
\* a list of records, or the panic of err.Error() on the nil err.
flattenCNAME(in, up) ==
    IF up.err
    THEN [panic |-> FALSE, err |-> TRUE, answers |-> <<>>]
    ELSE IF up.Rcode = "NXDOMAIN" \/ up.Rcode # "NOERROR"
    THEN [panic |-> TRUE, err |-> TRUE, answers |-> <<>>]
    ELSE LET IsA(a) == a.Rrtype = "A"
             as == SelectSeq(up.Answer, IsA)
         IN [panic |-> FALSE, err |-> FALSE,
             answers |-> [i \in 1..Len(as) |->
                             [Name |-> in.Name, Rrtype |-> "A", Class |-> "INET",
                              Ttl |-> FlatTtl, Rdata |-> as[i].Rdata]]]

\* Faulty variant: the handler flattens every CNAME an A query meets
FlattensAnyCNAME(record, zname, qn, qt) ==
    qn = record.Name /\ qt = "A" /\ record.Rrtype = "CNAME"

\* Whether an iteration of the handler's loop calls c.flattenCNAME
Flattens(record, zname, qn, qt) ==
    /\ qn = record.Name
    /\ qt = "A" /\ record.Rrtype = "CNAME"
    /\ qn = Fqdn(zname)

\* Faulty variant: the loop re-reads the records of whatever zone is
\* registered under the name at each iteration
ScannedRecordsLive(h) == registry[q[h].zone].rrs

\* The records the handler's loop ranges over: z.rrs of the zone value its
\* closure captured when it was registered
ScannedRecords(h) == q[h].z.rrs

\* Whether name qn is pattern p or below it
IsSubDomain(qn, p) ==
    \/ p = Root
    \/ /\ Len(qn) >= Len(p)
       /\ SubSeq(qn, Len(qn) - Len(p) + 1, Len(qn)) = p
       /\ (Len(qn) = Len(p) \/ qn[Len(qn) - Len(p)] = ".")

Matching(qn) ==
    {n \in RegNames : registry[n] # NoHandler /\ IsSubDomain(qn, Fqdn(n))}

\* Faulty variant: the server takes any registered handler
GoverningAny(qn) ==
    IF \E n \in RegNames : registry[n].kind = "zone"
    THEN CHOOSE n \in RegNames : registry[n].kind = "zone"
    ELSE Root

\* The registration the server's mux hands a query for qn to: the one
\* with the longest pattern that qn is at or below
Governing(qn) ==
    CHOOSE n \in Matching(qn) :
        \A m \in Matching(qn) : Len(Fqdn(m)) <= Len(Fqdn(n))

\* The server hands a single-question INET query for name qn to the
\* handler registered for zone n, which counts the request
Query(h, n, qn, qt) ==
    /\ Alive
    /\ serving
    /\ q[h] = NoQuery
    /\ stats.request < MaxQueries
    /\ Matching(qn) # {}
    /\ n = Governing(qn)
    /\ registry[n].kind = "zone"
    /\ q' = [q EXCEPT ![h] = [pc |-> "scan", zone |-> n, z |-> registry[n],
                              Name |-> qn, Qtype |-> qt, i |-> 1,
                              Answer |-> <<>>, up |-> NoExchange]]
    /\ stats' = [stats EXCEPT !.request = stats.request + 1]
    /\ UNCHANGED <<now, remote, uploads, lastUpdate, resp, zones, todo, registry,
                   serving, cpc, mpc, exit, sigs, lost, running, cyc, sent>>

\* The handler of zone n gets a query of nq questions whose first is of
\* class cl, and one of its two checks fails
BadQuery(h, n, nq, cl) ==
    /\ Alive
    /\ serving
    /\ q[h] = NoQuery
    /\ stats.request < MaxQueries
    /\ registry[n].kind = "zone"
    /\ nq # 1 \/ cl # "INET"
    /\ q' = [q EXCEPT ![h] = [pc |-> "reject", zone |-> n]]
    /\ stats' = [stats EXCEPT !.request = stats.request + 1]
    /\ UNCHANGED <<now, remote, uploads, lastUpdate, resp, zones, todo, registry,
                   serving, cpc, mpc, exit, sigs, lost, running, cyc, sent>>

\* Faulty variant: the failed check answers the query all the same
DropQueryWithReply(h) ==
    /\ Alive
    /\ q[h].pc = "reject"
    /\ q' = [q EXCEPT ![h] = NoQuery]
    /\ stats' = [stats EXCEPT !.error = stats.error + 1]
    /\ sent' = sent + 1
    /\ UNCHANGED <<now, remote, uploads, lastUpdate, resp, zones, todo, registry,
                   serving, cpc, mpc, exit, sigs, lost, running, cyc>>

\* The failed check counts the error and returns
DropQuery(h) ==
    /\ Alive
    /\ q[h].pc = "reject"
    /\ q' = [q EXCEPT ![h] = NoQuery]
    /\ stats' = [stats EXCEPT !.error = stats.error + 1]
    /\ UNCHANGED <<now, remote, uploads, lastUpdate, resp, zones, todo, registry,
                   serving, cpc, mpc, exit, sigs, lost, running, cyc, sent>>

\* Faulty variant: the CNAME record is kept next to its flattened records
EmittedKeepsCNAME(record, zname, qn, qt, flat) ==
    IF qn # record.Name THEN <<>>
    ELSE IF Flattens(record, zname, qn, qt)
    THEN (IF flat.err THEN <<>> ELSE flat.answers) \o <<record>>
    ELSE IF qt = "A" /\ record.Rrtype = "CNAME" THEN <<record>>
    ELSE IF qt # record.Rrtype /\ qt # "ANY" THEN <<>>
    ELSE <<record>>

\* What one iteration of the handler's loop appends to m.Answer; flat is
\* the result of flattenCNAME when the iteration calls it
Emitted(record, zname, qn, qt, flat) ==
    IF qn # record.Name THEN <<>>
    ELSE IF Flattens(record, zname, qn, qt)
    THEN IF flat.err THEN <<>> ELSE flat.answers
    ELSE IF qt = "A" /\ record.Rrtype = "CNAME" THEN <<record>>
    ELSE IF qt # record.Rrtype /\ qt # "ANY" THEN <<>>
    ELSE <<record>>

\* One iteration of the handler's loop over the zone's records
ScanRecord(h) ==
    /\ Alive
    /\ q[h].pc = "scan"
    /\ q[h].i <= Len(ScannedRecords(h))
    /\ LET record == ScannedRecords(h)[q[h].i]
           calls == Flattens(record, q[h].z.name, q[h].Name, q[h].Qtype)
       IN \E up \in IF calls THEN Upstream ELSE {q[h].up} :
            LET flat == IF calls THEN flattenCNAME(record, up)
                        ELSE [panic |-> FALSE, err |-> FALSE, answers |-> <<>>]
            IN IF flat.panic
               THEN /\ exit' = "panic"
                    /\ q' = [q EXCEPT ![h] = [pc |-> "panic", up |-> up]]
               ELSE /\ q' = [q EXCEPT ![h].i = q[h].i + 1,
                                      ![h].up = up,
                                      ![h].Answer =
                                          q[h].Answer \o
                                          Emitted(record, q[h].z.name, q[h].Name,
                                                  q[h].Qtype, flat)]
                    /\ UNCHANGED exit
    /\ UNCHANGED <<now, remote, uploads, lastUpdate, resp, zones, todo, registry,
                   serving, cpc, mpc, sigs, lost, running, cyc, stats, sent>>

\* c.stats.Incr("query.answer", 1) and w.WriteMsg(m)
WriteMsg(h) ==
    /\ Alive
    /\ q[h].pc = "scan"
    /\ q[h].i > Len(ScannedRecords(h))
    /\ q' = [q EXCEPT ![h] = NoQuery]
    /\ stats' = [stats EXCEPT !.answer = stats.answer + 1]
    /\ sent' = sent + 1
    /\ UNCHANGED <<now, remote, uploads, lastUpdate, resp, zones, todo, registry,
                   serving, cpc, mpc, exit, sigs, lost, running, cyc>>

\* The handler registerVersionHandler registers gets a query for (qn, qt)
\* and builds its reply
VersionQuery(h, qn, qt) ==
    /\ Alive
    /\ serving
    /\ q[h] = NoQuery
    /\ Matching(qn) # {}
    /\ registry[Governing(qn)] = VersionHandler
    /\ q' = [q EXCEPT ![h] =
                [pc |-> "version", Name |-> qn, Qtype |-> qt,
                 Answer |-> IF qn = Root /\ qt = "TXT"
                            THEN << [Name |-> qn, Rrtype |-> "TXT",
                                     Txt |-> <<"v">> \o Version] >>
                            ELSE <<>>,
                 Extra |-> IF qn = Root /\ qt = "TXT"
                           THEN << [Name |-> qn, Rrtype |-> "TXT",
                                    Txt |-> <<"N", "e", "d", "D", "N", "S">>] >>
                           ELSE <<>>]]
    /\ UNCHANGED <<now, remote, uploads, lastUpdate, resp, zones, todo, registry,
                   serving, cpc, mpc, exit, sigs, lost, running, cyc, stats, sent>>

\* w.WriteMsg(m) of the version handler
VersionWriteMsg(h) ==
    /\ Alive
    /\ q[h].pc = "version"
    /\ q' = [q EXCEPT ![h] = NoQuery]
    /\ UNCHANGED <<now, remote, uploads, lastUpdate, resp, zones, todo, registry,
                   serving, cpc, mpc, exit, sigs, lost, running, cyc, stats, sent>>

----------------------------------------------------------------------------

\* The steps of getZones, loadZones and of main up to startServer
Load ==
    \/ ListZones
    \/ ListZonesError
    \/ GetZonesStep
    \/ GetZoneError
    \/ GetZonesReturn
    \/ \E n \in RegNames : LoadZone(n)
    \/ LoadZonesReturn
    \/ StartServer

\* Reloads driven by the timer while the clock advances and the bucket is
\* written to; no signal is sent and no query is made
Next ==
    \/ Tick
    \/ \E k \in Keys \ {RootKey}, c \in Contents : Upload(k, c, MaxTimedUploads)
    \/ Load
    \/ TimerFires

Spec == Init /\ [][Next]_vars

\* Reloads driven by the timer and by signals, over a bucket that does not
\* change
SignalNext ==
    \/ Load
    \/ TimerFires
    \/ UpdateSignal
    \/ MainReceives
    \/ \E s \in Signals : Signal(s)

SignalSpec == Init /\ [][SignalNext]_vars

\* Queries answered while the timer reloads zones that are written to,
\* within one minute of the clock
QueryNext ==
    \/ \E k \in Keys \ {RootKey}, c \in Contents : Upload(k, c, MaxUploads)
    \/ Load
    \/ TimerFires
    \/ \E n \in ZoneNames, qt \in QTypes : Query("h1", n, Fqdn(n), qt)
    \/ ScanRecord("h1")
    \/ WriteMsg("h1")

QuerySpec == Init /\ [][QueryNext]_vars

\* The names queries ask for: the apex of each zone, a name below it, a
\* name no zone holds, and the root
QNames ==
    {Fqdn(n) : n \in ZoneNames} \cup {<<"w", ".">> \o Fqdn(n) : n \in ZoneNames}
        \cup {<<"x", ".">>, Root}

AllQTypes == QTypes \cup {"TXT"}

\* Queries of every kind, two at a time, to the zones the startup has
\* loaded; no reload takes place
HandlerNext ==
    \/ ListZones
    \/ ListZonesError
    \/ GetZonesStep
    \/ GetZoneError
    \/ GetZonesReturn
    \/ \E n \in RegNames : LoadZone(n)
    \/ StartServer
    \/ \E h \in HandlerIds :
          \/ \E n \in RegNames, qn \in QNames, qt \in AllQTypes : Query(h, n, qn, qt)
          \/ \E n \in ZoneNames, nq \in {0, 1, 2}, cl \in QClasses : BadQuery(h, n, nq, cl)
          \/ DropQuery(h)
          \/ ScanRecord(h)
          \/ WriteMsg(h)
          \/ \E qn \in QNames, qt \in AllQTypes : VersionQuery(h, qn, qt)
          \/ VersionWriteMsg(h)

HandlerSpec == HandlerInit /\ [][HandlerNext]_vars

\* Reloads of a bucket that may hold an object named "." and that objects
\* are written to and removed from, while "." is asked for its TXT records
RootNext ==
    \/ \E k \in Keys, c \in Contents : Upload(k, c, MaxChanges)
    \/ \E k \in Keys : Delete(k, MaxChanges)
    \/ Load
    \/ TimerFires
    \/ VersionQuery("h1", Root, "TXT")
    \/ VersionWriteMsg("h1")
    \/ \E n \in RegNames : Query("h1", n, Root, "TXT")
    \/ ScanRecord("h1")
    \/ WriteMsg("h1")

RootSpec == RootInit /\ [][RootNext]_vars

----------------------------------------------------------------------------
(* Properties *)

ZoneCount == Cardinality({n \in RegNames : registry[n].kind = "zone"})

ListedKeys(l) == {l[i] : i \in 1..Len(l)}

TermSignals == {"SIGINT", "SIGTERM"}

\* The answer built from the first k records of rrs, in stored order, for
\* a query (qn, qt) to the handler of zone zname whose exchange with the
\* resolver, if any, returned up
RECURSIVE AnswerOfPrefix(_, _, _, _, _, _)
AnswerOfPrefix(rrs, k, zname, qn, qt, up) ==
    IF k = 0 THEN <<>>
    ELSE AnswerOfPrefix(rrs, k - 1, zname, qn, qt, up) \o
         Emitted(rrs[k], zname, qn, qt,
                 IF Flattens(rrs[k], zname, qn, qt) /\ up # NoExchange
                 THEN flattenCNAME(rrs[k], up)
                 ELSE [panic |-> FALSE, err |-> FALSE, answers |-> <<>>])

\* C1: when a reload cycle fails (listing, fetching or parsing), every zone
\* of the store is still the version it was when the cycle began, the
\* zones of the batch handled before the failing one included.
C1_FailedCycleLeavesStore ==
    (cyc.reload /\ cyc.phase = "failed") => registry = cyc.store

\* C2: after loadZones(batch) of a reload cycle, every name outside the
\* batch has the handler it had before the cycle and every name of the
\* batch has the zone parsed from the batch's text.
C2_MergeFrame ==
    (cyc.reload /\ cyc.phase = "done") =>
        \A n \in RegNames :
            registry[n] = IF n \in DOMAIN cyc.batch
                          THEN ParsedZone(n, cyc.batch[n])
                          ELSE cyc.store[n]

C2_Witness ==
    /\ cyc.reload
    /\ cyc.phase = "done"
    /\ \E n \in DOMAIN cyc.batch : registry[n] # cyc.store[n]
    /\ \E m \in ZoneNames \ DOMAIN cyc.batch : cyc.store[m].kind = "zone"

\* C3: at every step of a query, the answer built so far is the answer
\* built from the records of one version of the queried zone, whatever
\* reload has replaced the zone meanwhile.
C3_QueryOneVersion ==
    \A h \in HandlerIds :
        q[h].pc = "scan" =>
            \E c \in GoodContents \cup {FlatContent} :
                q[h].Answer = AnswerOfPrefix(ParsedZone(q[h].zone, c).rrs,
                                             q[h].i - 1, q[h].zone,
                                             q[h].Name, q[h].Qtype, q[h].up)

C3_Witness ==
    \E h \in HandlerIds :
        /\ q[h].pc = "scan"
        /\ q[h].i > 1
        /\ q[h].i <= Len(q[h].z.rrs)
        /\ Len(q[h].Answer) >= 1
        /\ registry[q[h].zone] # q[h].z

\* C4: at most one reload cycle is in progress at any instant, and a cycle
\* is in progress exactly while the reload goroutine is between its select
\* and the end of loadZones.
C4_NoOverlap ==
    /\ running <= 1
    /\ serving => (running = 1 <=> cpc # "select")

C4_Witness ==
    /\ running = 1
    /\ mpc = "send"
    /\ cpc = "load"

\* C5: a SIGHUP that arrives while a reload cycle runs leaves exactly one
\* reload request pending for the end of that cycle: main is waiting to
\* hand it over on doUpdate.
C5_TriggerCausesOneCycle ==
    (Alive /\ running = 1 /\ cyc.hups = 1) => mpc = "send"

\* C6: a termination signal stops the process, in whatever state the
\* signal loop is: none is dropped.
C6_TerminationStops ==
    \A l \in lost : l.sig \notin TermSignals

\* C7: the listeners are started only with at least one zone in the store.
C7_ServesOnlyWithZones ==
    serving => ZoneCount >= 1

\* C8: the map getZones returns has exactly the names of the listed
\* objects that are not the prefix key and were not modified strictly
\* before the watermark minus one minute, each with the prefix stripped.
C8_FetchedSet ==
    cyc.phase \in {"loadZones", "done"} =>
        DOMAIN cyc.batch =
            {TrimPrefix(k.Key, Prefix) :
                k \in {l \in ListedKeys(cyc.listing) :
                          /\ l.Key # Prefix
                          /\ l.LastModified >= cyc.wm - Minute}}

C8_Witness ==
    /\ cyc.reload
    /\ cyc.phase = "done"
    /\ \E k \in ListedKeys(cyc.listing) :
          /\ k.LastModified = cyc.wm - Minute
          /\ TrimPrefix(k.Key, Prefix) \in DOMAIN cyc.batch
    /\ \E k \in ListedKeys(cyc.listing) :
          /\ k.Key # Prefix
          /\ k.LastModified < cyc.wm - Minute
    /\ \E k \in ListedKeys(cyc.listing) : k.Key = Prefix

\* C9: a reload cycle that succeeds leaves lastUpdate at the time the cycle
\* began, and lastUpdate keeps its value until the batch has been merged
\* and when the cycle fails.
C9_WatermarkIsCycleStart ==
    cyc.reload =>
        /\ cyc.phase = "done" => lastUpdate = cyc.start
        /\ cyc.phase # "done" => lastUpdate = cyc.wm

\* C10: a reload cycle that lists no object modified at or after the
\* watermark minus one minute fetches no zone and leaves the store as it
\* was.
C10_IdleCycleChangesNothing ==
    ( /\ cyc.reload
      /\ cyc.phase = "done"
      /\ \A k \in ListedKeys(cyc.listing) : k.LastModified < cyc.wm - Minute )
    => /\ DOMAIN cyc.batch = {}
       /\ registry = cyc.store
       /\ lastUpdate >= cyc.wm

C10_Witness ==
    /\ cyc.reload
    /\ cyc.phase = "done"
    /\ cyc.listing # <<>>
    /\ \A k \in ListedKeys(cyc.listing) : k.LastModified < cyc.wm - Minute
    /\ ZoneCount >= 1
    /\ lastUpdate > cyc.wm

\* The A records the flattener is to make of the resolver's response up
\* for the apex of zone zname
SynthesizedA(zname, up) ==
    IF up = NoExchange THEN <<>>
    ELSE IF up.err THEN <<>>
    ELSE IF up.Rcode # "NOERROR" THEN <<>>
    ELSE LET IsA(a) == a.Rrtype = "A"
             as == SelectSeq(up.Answer, IsA)
         IN [i \in 1..Len(as) |->
                [Name |-> Fqdn(zname), Rrtype |-> "A", Class |-> "INET",
                 Ttl |-> 300, Rdata |-> as[i].Rdata]]

\* The answer to (qn, qt) from the first k records of rrs by the rule of
\* C11; with cnameForA, a CNAME record off the apex answers an A query too
RECURSIVE RuleAnswer(_, _, _, _, _, _, _)
RuleAnswer(rrs, k, zname, qn, qt, up, cnameForA) ==
    IF k = 0 THEN <<>>
    ELSE RuleAnswer(rrs, k - 1, zname, qn, qt, up, cnameForA) \o
         ( IF rrs[k].Name # qn THEN <<>>
           ELSE IF qt = "A" /\ rrs[k].Rrtype = "CNAME" /\ qn = Fqdn(zname)
           THEN SynthesizedA(zname, up)
           ELSE IF rrs[k].Rrtype = qt \/ qt = "ANY" THEN <<rrs[k]>>
           ELSE IF cnameForA /\ qt = "A" /\ rrs[k].Rrtype = "CNAME" THEN <<rrs[k]>>
           ELSE <<>> )

\* C11 (as stated): the answer of a well-formed INET query (q, t) is built
\* from the zone's records in stored order; a record named q is replaced
\* by the flattener's A records (apex name, TTL 300, class INET, upstream
\* address) when t is A, it is a CNAME and q is the apex, and is otherwise
\* appended iff its type is t or t is ANY; no other record is appended.
C11_AnswerRule ==
    \A h \in HandlerIds :
        q[h].pc = "scan" =>
            q[h].Answer = RuleAnswer(q[h].z.rrs, q[h].i - 1, q[h].z.name,
                                     q[h].Name, q[h].Qtype, q[h].up, FALSE)

\* C11 (amended): the same, where a CNAME record named q that is not
\* flattened is appended to the answer of an A query as well.
C11_AnswerRuleWithCNAME ==
    \A h \in HandlerIds :
        q[h].pc = "scan" =>
            q[h].Answer = RuleAnswer(q[h].z.rrs, q[h].i - 1, q[h].z.name,
                                     q[h].Name, q[h].Qtype, q[h].up, TRUE)

C11_Witness ==
    /\ \E h \in HandlerIds :
          /\ q[h].pc = "scan"
          /\ q[h].i > Len(q[h].z.rrs)
          /\ q[h].Qtype = "A"
          /\ q[h].Name = Fqdn(q[h].zone)
          /\ q[h].z.rrs[1].Rrtype = "CNAME"
          /\ q[h].Answer = << [Name |-> Fqdn(q[h].zone), Rrtype |-> "A",
                               Class |-> "INET", Ttl |-> 300, Rdata |-> "ip"] >>
    /\ \E h \in HandlerIds :
          /\ q[h].pc = "scan"
          /\ q[h].i > Len(q[h].z.rrs)
          /\ q[h].Qtype = "ANY"
          /\ Len(q[h].Answer) = 2

RecordsOf(s) == {s[i] : i \in 1..Len(s)}

\* C12: an A query for a name that is not the apex of its zone never calls
\* the flattener, and every CNAME record of that name the scan has passed
\* is in the answer as it is stored in the zone.
C12_FlattenOnlyAtApex ==
    \A h \in HandlerIds :
        (q[h].pc = "scan" /\ q[h].Qtype = "A" /\ q[h].Name # Fqdn(q[h].z.name)) =>
            /\ q[h].up = NoExchange
            /\ RecordsOf(q[h].Answer) \subseteq RecordsOf(q[h].z.rrs)
            /\ \A k \in 1..(q[h].i - 1) :
                  (q[h].z.rrs[k].Name = q[h].Name /\ q[h].z.rrs[k].Rrtype = "CNAME")
                      => q[h].z.rrs[k] \in RecordsOf(q[h].Answer)

C12_Witness ==
    \E h \in HandlerIds :
        /\ q[h].pc = "scan"
        /\ q[h].i > Len(q[h].z.rrs)
        /\ q[h].Qtype = "A"
        /\ q[h].Name = <<"w", ".">> \o Fqdn(q[h].z.name)
        /\ q[h].up = NoExchange
        /\ q[h].Answer = << [Name |-> q[h].Name, Rrtype |-> "CNAME",
                             Rdata |-> Fqdn(q[h].z.name)] >>

\* The three failures of the exchange with the resolver: no response, a
\* response with a failure code, a response without answer
UpstreamFailed(up) ==
    IF up.err THEN TRUE
    ELSE up.Rcode # "NOERROR" \/ up.Answer = <<>>

\* C13: whichever way the exchange with the resolver fails, the handler
\* that called the flattener goes on with no flattened record in its
\* answer, and the process does not end.
C13_FlattenFailureNotFatal ==
    \A h \in HandlerIds :
        (q[h].pc \in {"scan", "panic"} /\ q[h].up # NoExchange
            /\ UpstreamFailed(q[h].up)) =>
                /\ exit # "panic"
                /\ q[h].pc = "scan"
                /\ q[h].Answer = <<>>

\* C14: the handler entered with a query it rejects (question count not 1,
\* or class not INET) adds one to query.request, then one to query.error
\* and ends: neither step writes a response, counts an answer, changes a
\* registration or ends the process, and the goroutine is free again.
C14_RejectedQueryDropped ==
    [][\A h \in HandlerIds :
          /\ (q[h] = NoQuery /\ q'[h].pc = "reject") =>
                /\ stats' = [stats EXCEPT !.request = stats.request + 1]
                /\ sent' = sent
                /\ registry' = registry
                /\ exit' = "none"
          /\ (q[h].pc = "reject" /\ q'[h] # q[h]) =>
                /\ q'[h] = NoQuery
                /\ stats' = [stats EXCEPT !.error = stats.error + 1]
                /\ sent' = sent
                /\ registry' = registry
                /\ exit' = "none"]_vars

C14_Witness ==
    /\ Alive
    /\ stats.request = 2
    /\ stats.error = 1
    /\ stats.answer = 1
    /\ sent = 1
    /\ \A h \in HandlerIds : q[h] = NoQuery

\* C15: while the server runs, the name "." is registered to the version
\* handler, and a TXT query for "." is answered with the version string
\* and the product identifier.
C15_VersionAlwaysAnswered ==
    /\ serving => registry[Root] = VersionHandler
    /\ \A h \in HandlerIds :
          (q[h].pc \in {"scan", "version"} /\ q[h].Name = Root /\ q[h].Qtype = "TXT") =>
              /\ q[h].pc = "version"
              /\ q[h].Answer = << [Name |-> Root, Rrtype |-> "TXT",
                                   Txt |-> <<"v">> \o Version] >>
              /\ q[h].Extra = << [Name |-> Root, Rrtype |-> "TXT",
                                  Txt |-> <<"N", "e", "d", "D", "N", "S">>] >>

\* C19 (as stated): a name that has a zone in the store has a zone in the
\* store after every step.
C19_NamesNeverShrink ==
    [][\A n \in RegNames :
          registry[n].kind = "zone" => registry'[n].kind = "zone"]_vars

\* C19 (amended): a name other than "." that has a zone in the store has
\* a zone in the store after every step, whatever the bucket then holds.
C19_ZoneNamesNeverShrink ==
    [][\A n \in RegNames \ {Root} :
          registry[n].kind = "zone" => registry'[n].kind = "zone"]_vars

C19_Witness ==
    /\ cyc.reload
    /\ cyc.phase = "done"
    /\ \E n \in ZoneNames :
          /\ cyc.store[n].kind = "zone"
          /\ registry[n].kind = "zone"
          /\ remote[Prefix \o n] = NoObject
          /\ \A k \in ListedKeys(cyc.listing) : k.Key # Prefix \o n
    /\ DOMAIN cyc.batch # {}

\* Name qn is the apex of zone n or a name below it
Below(qn, n) ==
    LET p == Fqdn(n)
    IN /\ Len(qn) >= Len(p)
       /\ SubSeq(qn, Len(qn) - Len(p) + 1, Len(qn)) = p
       /\ (Len(qn) = Len(p) \/ qn[Len(qn) - Len(p)] = ".")

LoadedZonesOver(qn) ==
    {n \in ZoneNames : registry[n].kind = "zone" /\ Below(qn, n)}

\* The records of the answer of handler h come from zone n alone
OnlyFromZone(h, n) ==
    /\ RecordsOf(q[h].Answer) \subseteq
          RecordsOf(registry[n].rrs) \cup RecordsOf(SynthesizedA(n, q[h].up))
    /\ \A m \in ZoneNames \ {n} :
          registry[m].kind = "zone" =>
              RecordsOf(q[h].Answer) \cap RecordsOf(registry[m].rrs) = {}

\* C16 (as stated): a query for a name under a loaded zone is handled by
\* that zone's handler and its answer holds records of that zone only (or
\* records flattened from its apex CNAME); a query for a name under no
\* loaded zone gets an empty answer.
C16_AnswerFromGoverningZone ==
    \A h \in HandlerIds :
        q[h].pc \in {"scan", "version"} =>
            IF LoadedZonesOver(q[h].Name) = {}
            THEN q[h].pc = "version" /\ q[h].Answer = <<>>
            ELSE /\ q[h].pc = "scan"
                 /\ q[h].zone \in LoadedZonesOver(q[h].Name)
                 /\ OnlyFromZone(h, q[h].zone)

\* C16 (amended): the same, where the empty answer is that of every query
\* for a name under no loaded zone but the TXT query for ".".
C16_AnswerFromGoverningZoneOrVersion ==
    \A h \in HandlerIds :
        q[h].pc \in {"scan", "version"} =>
            IF LoadedZonesOver(q[h].Name) = {}
            THEN /\ q[h].pc = "version"
                 /\ (q[h].Name = Root /\ q[h].Qtype = "TXT") \/ q[h].Answer = <<>>
            ELSE /\ q[h].pc = "scan"
                 /\ q[h].zone \in LoadedZonesOver(q[h].Name)
                 /\ OnlyFromZone(h, q[h].zone)

C16_Witness ==
    /\ \A n \in ZoneNames : registry[n].kind = "zone"
    /\ \E h \in HandlerIds :
          /\ q[h].pc = "scan"
          /\ q[h].i > Len(q[h].z.rrs)
          /\ Len(q[h].Answer) >= 1
    /\ \E h \in HandlerIds :
          /\ q[h].pc = "version"
          /\ q[h].Name = <<"x", ".">>
          /\ q[h].Answer = <<>>

\* C17: every zone of the store, and every zone a query is scanning, is the
\* whole record sequence of one well-formed text, in the order of the text;
\* and when the parser reports an error for a zone, that zone's name still
\* has the handler it had when the cycle began.
C17_NoPartialZone ==
    /\ \A n \in RegNames :
          registry[n].kind = "zone" =>
              \E c \in GoodContents :
                  ~ParseFails(n, c) /\ registry[n] = ParsedZone(n, c)
    /\ \A h \in HandlerIds :
          q[h].pc = "scan" =>
              \E c \in GoodContents : q[h].z = ParsedZone(q[h].zone, c)
    /\ exit = "parse" =>
          \A n \in todo :
              ParseFails(n, zones[n]) => registry[n] = cyc.store[n]

C17_Witness ==
    /\ exit = "parse"
    /\ cyc.reload
    /\ \E n \in todo :
          /\ ParseFails(n, zones[n])
          /\ cyc.store[n].kind = "zone"
          /\ registry[n] = cyc.store[n]
    /\ q["h1"].pc = "scan"

\* The zone installed under the name of key k is the one parsed from the
\* object the bucket now holds under k
Installed(k) ==
    /\ remote[k].Contents \in GoodContents
    /\ registry[TrimPrefix(k, Prefix)] =
          ParsedZone(TrimPrefix(k, Prefix), remote[k].Contents)

\* C18: between two cycles, every object of the bucket is either installed
\* as it now is, or recent enough for the staleness test of the cycles to
\* come to let it through; so no cycle, however long its fetch phase,
\* leaves behind an object that no later cycle fetches.
C18_NoUpdateLost ==
    (Alive /\ serving /\ cpc = "select") =>
        \A k \in Keys \ {Prefix} :
            remote[k] # NoObject =>
                \/ Installed(k)
                \/ ~IsStale([Key |-> k, LastModified |-> remote[k].LastModified])

\* Invocations of zoneHandler that have begun and not ended
InProgress == Cardinality({h \in HandlerIds : q[h].pc \in {"scan", "reject"}})

\* C20: query.request is the sum of query.error, query.answer and the
\* number of invocations of the zone handler in progress, and the zone
\* handlers have written as many responses as query.answer counts.
C20_CounterConsistency ==
    /\ stats.request = stats.error + stats.answer + InProgress
    /\ sent = stats.answer

====
